---- MODULE Spec2Model ----
(***************************************************************************)
(* FireModel (src/models/FireModel.js): create / fetch / update / delete   *)
(* of model instances against a document store, with transactional         *)
(* auto-numbering and the hasMany check before a delete; initialize(),     *)
(* getNgramTokenMap() and the tokenMap accessor; and the firebase.auth     *)
(* plugin with the masters store it subscribes (src/plugins, src/store).   *)
(*                                                                         *)
(* Strings whose characters matter (codes, names) are sequences of         *)
(* one-character strings; '' is << >>.  A timestamp is << >> (null) or     *)
(* <<t>>.  Document ids, uids and error types are atoms.                   *)
(***************************************************************************)
EXTENDS Integers, Sequences, FiniteSets, TLC

VARIABLES
  docs,        \* the model's collection: docId -> stored payload
  autonum,     \* the document Autonumbers/<collection>
  autonumVer,  \* its version (update time), checked when a transaction commits
  children,    \* documents of the collections named by hasMany
  authUser,    \* auth.currentUser ("" when nobody is signed in)
  clock,       \* the current instant
  nextAuto,    \* store-generated document ids handed out so far
  inst,        \* per client: the fields of its model instance
  pc,          \* per client: where its running operation is suspended
  call,        \* per client: the running (or last) operation and its argument
  loc,         \* per client: locals of the running operation
  res,         \* per client: how the last operation settled
  log,         \* per client: hooks invoked and store requests issued by the operation
  calls,       \* operations started so far
  limit,       \* operations the run may start
  interleave,  \* whether an operation may start while another one is running
  prev,        \* per client: the operation that had completed last when its call began
  lastOp,      \* the operation that completed last
  autonum0,    \* the autonumber document as it was initially
  created,     \* the transactions of create() that committed
  vuex,        \* the Vuex store: auth.user, masters.listeners and the master arrays
  callbacks,   \* the invocations of the onAuthStateChanged callback, oldest first
  attached,    \* the snapshot listeners attached to master collections
  promise      \* the promise the firebase.auth plugin returned

vars == <<docs, autonum, autonumVer, children, authUser, clock, nextAuto, inst,
          pc, call, loc, res, log, calls, limit, interleave, prev, lastOp,
          autonum0, created, vuex, callbacks, attached, promise>>

\* the state of the application around the models
appVars == <<vuex, callbacks, attached, promise>>

storeVars == <<docs, autonum, autonumVer, children>>

\* ------------------------------------------------------------------ bounds
MaxCalls == 2            \* operations started when they run one at a time
MaxConcurrentCalls == 3  \* operations started when they interleave
MaxChildWrites == 1      \* dependent documents written
MaxUpdateCalls == 3      \* operations started around an update()
MaxLen == 3              \* characters of a string given to getNgramTokenMap()
MaxKeys == 2             \* keys of a payload given to initialize()
MaxAuthChanges == 4      \* auth-state changes reported to the plugin

\* ------------------------------------------------------------------ universe
Clients == {"c1", "c2"}
ExplicitIds == {"x"}
AutoIdNames == <<"a1", "a2", "a3", "a4", "a5", "a6">>
AutoId(n) == AutoIdNames[n]
NoId == ""
Null == << >>
EmptyStr == << >>

\* hasMany: { collection, field, condition } in declared order
hasMany == << [collection |-> "Orders",   field |-> "customerId", condition |-> "=="],
              [collection |-> "Invoices", field |-> "customerId", condition |-> "=="] >>

\* ------------------------------------------------------------------ strings
DigitChars == <<"0", "1", "2", "3", "4", "5", "6", "7", "8", "9">>

RECURSIVE Digits(_)
Digits(n) == IF n < 10 THEN <<DigitChars[n + 1]>>
             ELSE Digits(n \div 10) \o <<DigitChars[(n % 10) + 1]>>

\* '' + num
NumToString(n) == IF n < 0 THEN <<"-">> \o Digits(-n) ELSE Digits(n)

RECURSIVE Zeros(_)
Zeros(k) == IF k <= 0 THEN << >> ELSE <<"0">> \o Zeros(k - 1)

\* Array(n).join('0'): n empty slots joined by '0'
ArrayJoinZero(n) == Zeros(n - 1)

\* s.slice(-k)
SliceLast(s, k) == IF k = 0 \/ k >= Len(s) THEN s
                   ELSE SubSeq(s, Len(s) - k + 1, Len(s))

\* (Array(length).join('0') + num).slice(-length)
NewCodeUnpadded(num, length) == NumToString(num)

NewCode(num, length) == SliceLast(ArrayJoinZero(length) \o NumToString(num), length)

MaxCode(length) == ArrayJoinZero(length + 1)

\* ------------------------------------------------------------------ instance
BaseInitial == [docId |-> NoId, createAt |-> Null, createDate |-> EmptyStr,
                updateAt |-> Null, updateDate |-> EmptyStr, uid |-> ""]

BaseFields == DOMAIN BaseInitial

\* a freshly constructed instance of a subclass that declares name and code
FreshInstance == [docId |-> NoId, createAt |-> Null, createDate |-> EmptyStr,
                  updateAt |-> Null, updateDate |-> EmptyStr, uid |-> "",
                  name |-> EmptyStr, code |-> EmptyStr]

Fields == DOMAIN FreshInstance

UtcTime(t) == <<t>>
LocaleString(t) == <<"JST", t>>
CurrentUid == IF authUser = "" THEN "unknown" ELSE authUser

\* results of an operation
NoResult == [state |-> "none", type |-> "", info |-> << >>]
Resolved(id) == [state |-> "resolved", type |-> "", info |-> <<id>>]
Rejected(type, info) == [state |-> "rejected", type |-> type, info |-> info]

\* docRef, item: as in the code; read: the version and data transaction.get
\* returned; writes: the transaction's buffered writes; seen: the dependent
\* documents that matched a query of #hasChild() when it was answered
NoLocals == [docRef |-> NoId, item |-> << >>, read |-> << >>, writes |-> << >>, seen |-> {}]

\* ------------------------------------------------------------------ initial states
NoAutonum == [exists |-> FALSE, current |-> 0, length |-> 0, field |-> "", condition |-> FALSE]
Autonum(cur, len, cond) ==
  [exists |-> TRUE, current |-> cur, length |-> len, field |-> "code", condition |-> cond]

\* absent; disabled; enabled with room left, at the last code, and past the last code
InitAutonums == { NoAutonum, Autonum(9, 1, FALSE), Autonum(7, 1, TRUE),
                  Autonum(98, 2, TRUE), Autonum(100, 2, TRUE) }

\* a document written by another application: no code, and a key the model lacks
LegacyDoc == [docId |-> "x", createAt |-> UtcTime(0), createDate |-> LocaleString(0),
              uid |-> "u0", name |-> <<"L">>, legacy |-> <<"old">>]

NoDocs == << >>

\* the initial stores: every autonumber document over an empty collection, and
\* a collection that holds the legacy document, with and without a signed-in user
Scenario(d, a, u) == [docs |-> d, autonum |-> a, authUser |-> u]

Scenarios == { Scenario(NoDocs, a, "u1") : a \in InitAutonums }
             \cup { Scenario("x" :> LegacyDoc, NoAutonum, u) : u \in {"", "u1"} }

\* the master collections of the masters store (its state.listeners keys)
Masters == {"Customers"}

\* a listener slot is << >> (null) or holds one unsubscribe function
NoListener == << >>

Vuex0 == [user |-> "",
          listeners |-> [key \in Masters |-> NoListener],
          masters |-> [key \in Masters |-> {}]]

\* the plugin's promise: pending, or resolved by the resolve() of an invocation
\* of the callback
Pending == [state |-> "pending", by |-> 0]

NoCall == [op |-> "none", arg |-> NoId, fresh |-> TRUE]
NoOp == [by |-> "", op |-> "none", arg |-> NoId]

Start ==
  /\ \E s \in Scenarios : /\ docs = s.docs
                          /\ autonum = s.autonum
                          /\ authUser = s.authUser
  /\ autonumVer = 0
  /\ children = {}
  /\ clock = 1
  /\ nextAuto = 0
  /\ inst = [c \in Clients |-> FreshInstance]
  /\ pc = [c \in Clients |-> "idle"]
  /\ call = [c \in Clients |-> NoCall]
  /\ loc = [c \in Clients |-> NoLocals]
  /\ res = [c \in Clients |-> NoResult]
  /\ log = [c \in Clients |-> << >>]
  /\ calls = 0
  /\ prev = [c \in Clients |-> NoOp]
  /\ lastOp = NoOp
  /\ autonum0 = autonum
  /\ created = << >>
  /\ vuex = Vuex0
  /\ callbacks = << >>
  /\ attached = {}
  /\ promise = Pending


\* ------------------------------------------------------------------ operation frame
\* an operation is called on an idle instance
Begin(c, op, arg, first, events) ==
  /\ pc[c] = "idle"
  /\ calls < limit
  /\ interleave \/ \A o \in Clients : pc[o] = "idle"
  /\ calls' = calls + 1
  /\ call' = [call EXCEPT ![c] = [op |-> op, arg |-> arg, fresh |-> inst[c] = FreshInstance]]
  /\ prev' = [prev EXCEPT ![c] = lastOp]
  /\ pc' = [pc EXCEPT ![c] = first]
  /\ log' = [log EXCEPT ![c] = events]
  /\ res' = [res EXCEPT ![c] = NoResult]
  /\ loc' = [loc EXCEPT ![c] = NoLocals]
  /\ UNCHANGED <<limit, interleave, appVars>>

\* an operation called on an idle instance settles at once
BeginSettled(c, op, arg, result) ==
  /\ pc[c] = "idle"
  /\ calls < limit
  /\ interleave \/ \A o \in Clients : pc[o] = "idle"
  /\ calls' = calls + 1
  /\ call' = [call EXCEPT ![c] = [op |-> op, arg |-> arg, fresh |-> inst[c] = FreshInstance]]
  /\ prev' = [prev EXCEPT ![c] = lastOp]
  /\ lastOp' = [by |-> c, op |-> op, arg |-> arg]
  /\ log' = [log EXCEPT ![c] = << >>]
  /\ res' = [res EXCEPT ![c] = result]
  /\ loc' = [loc EXCEPT ![c] = NoLocals]
  /\ UNCHANGED <<pc, limit, interleave, appVars>>

\* the running operation settles
Settle(c, result) ==
  /\ pc' = [pc EXCEPT ![c] = "idle"]
  /\ res' = [res EXCEPT ![c] = result]
  /\ lastOp' = [by |-> c, op |-> call[c].op, arg |-> call[c].arg]
  /\ UNCHANGED <<call, calls, limit, interleave, prev, appVars>>

\* the running operation moves on to its next await
Goto(c, label) ==
  /\ pc' = [pc EXCEPT ![c] = label]
  /\ UNCHANGED <<call, calls, limit, interleave, prev, res, lastOp, appVars>>

Event(e, on) == [e |-> e, on |-> on]
Hook(h) == Event(h, "")
Request(r) == Event(r, "")
Emit(c, event) == log' = [log EXCEPT ![c] = Append(log[c], event)]

HookError(hook) == Rejected("hook", <<hook>>)

\* ------------------------------------------------------------------ create
\* create(docId): beforeCreate() is invoked and awaited
CreateCall(c, arg) ==
  /\ Begin(c, "create", arg, "beforeCreate", <<Hook("beforeCreate")>>)
  /\ UNCHANGED <<storeVars, authUser, clock, nextAuto, inst, lastOp, autonum0, created>>

\* beforeCreate() rejects: create() rethrows
BeforeCreateReject(c) ==
  /\ pc[c] = "beforeCreate"
  /\ Settle(c, HookError("beforeCreate"))
  /\ UNCHANGED <<storeVars, authUser, clock, nextAuto, inst, loc, log, autonum0, created>>

\* the instance as create() stamps it
StampCreate(i, id, t) ==
  [i EXCEPT !.docId = id,
            !.createAt = UtcTime(t), !.createDate = LocaleString(t),
            !.updateAt = UtcTime(t), !.updateDate = LocaleString(t),
            !.uid = CurrentUid]

\* beforeCreate() resolves: the document reference is made, the instance is
\* stamped and copied into item, and the transaction starts with its get
BeforeCreateResolveUnstamped(c) ==
  /\ pc[c] = "beforeCreate"
  /\ nextAuto < Len(AutoIdNames)
  /\ LET auto  == call[c].arg = NoId
         id    == IF auto THEN AutoId(nextAuto + 1) ELSE call[c].arg
     IN /\ nextAuto' = IF auto THEN nextAuto + 1 ELSE nextAuto
        /\ loc' = [loc EXCEPT ![c] = [NoLocals EXCEPT !.docRef = id,
                                                      !.item = StampCreate(inst[c], id, clock)]]
  /\ clock' = clock + 1
  /\ Emit(c, Request("transaction.get"))
  /\ Goto(c, "txGet")
  /\ UNCHANGED <<storeVars, authUser, inst, autonum0, created>>

BeforeCreateResolve(c) ==
  /\ pc[c] = "beforeCreate"
  /\ nextAuto < Len(AutoIdNames)
  /\ LET auto  == call[c].arg = NoId
         id    == IF auto THEN AutoId(nextAuto + 1) ELSE call[c].arg
         stamped == StampCreate(inst[c], id, clock)
     IN /\ nextAuto' = IF auto THEN nextAuto + 1 ELSE nextAuto
        /\ inst' = [inst EXCEPT ![c] = stamped]
        /\ loc' = [loc EXCEPT ![c] = [NoLocals EXCEPT !.docRef = id, !.item = stamped]]
  /\ clock' = clock + 1
  /\ Emit(c, Request("transaction.get"))
  /\ Goto(c, "txGet")
  /\ UNCHANGED <<storeVars, authUser, autonum0, created>>

\* autonumDoc.exists() && autonumDoc.data().condition
Numbering(snap) == snap.exists /\ snap.condition

TxNum(snap) == snap.current + 1

TxNewCode(snap) == NewCode(TxNum(snap), snap.length)

\* newCode === maxCode
TxExhaustedNever(snap) == FALSE

TxExhausted(snap) == Numbering(snap) /\ TxNewCode(snap) = MaxCode(snap.length)

\* item[autonumDoc.data().field] = newCode
TxItem(snap, item) ==
  IF Numbering(snap) THEN (snap.field :> TxNewCode(snap)) @@ item ELSE item

\* the writes the transaction function buffers
TxWritesNoUpdate(snap, docRef, item) ==
  << [op |-> "set", id |-> docRef, item |-> TxItem(snap, item), current |-> 0] >>

TxWrites(snap, docRef, item) ==
  (IF Numbering(snap)
   THEN << [op |-> "update", id |-> NoId, item |-> << >>, current |-> TxNum(snap)] >>
   ELSE << >>)
  \o << [op |-> "set", id |-> docRef, item |-> TxItem(snap, item), current |-> 0] >>

ExhaustedError == Rejected("exhausted", << >>)

\* transaction.get(autonumRef) answers and the transaction function runs to its
\* end: it throws, or it leaves its writes buffered for the commit
CreateTxGet(c) ==
  /\ pc[c] = "txGet"
  /\ IF TxExhausted(autonum)
     THEN /\ Settle(c, ExhaustedError)
          /\ UNCHANGED <<loc, log>>
     ELSE /\ loc' = [loc EXCEPT ![c].read = <<autonumVer, autonum>>,
                                ![c].item = TxItem(autonum, loc[c].item),
                                ![c].writes = TxWrites(autonum, loc[c].docRef, loc[c].item)]
          /\ Emit(c, Request("transaction.commit"))
          /\ Goto(c, "txCommit")
  /\ UNCHANGED <<storeVars, authUser, clock, nextAuto, inst, autonum0, created>>

\* the store applies one buffered write
ApplyWriteMerge(store, w) ==
  IF w.op = "update"
  THEN [store EXCEPT !.autonum = [store.autonum EXCEPT !.current = w.current],
                     !.ver = store.ver + 1]
  ELSE [store EXCEPT !.docs =
          (w.id :> (IF w.id \in DOMAIN store.docs THEN w.item @@ store.docs[w.id] ELSE w.item))
            @@ store.docs]

ApplyWrite(store, w) ==
  IF w.op = "update"
  THEN [store EXCEPT !.autonum = [store.autonum EXCEPT !.current = w.current],
                     !.ver = store.ver + 1]
  ELSE [store EXCEPT !.docs = (w.id :> w.item) @@ store.docs]

RECURSIVE ApplyWrites(_, _)
ApplyWrites(store, writes) ==
  IF writes = << >> THEN store
  ELSE ApplyWrites(ApplyWrite(store, Head(writes)), Tail(writes))

\* what a commit leaves in the history: one entry per document it set, with the
\* code the document carries and whether the transaction function numbered it
Landed(c, writes) ==
  LET sets == SelectSeq(writes, LAMBDA w : w.op = "set")
  IN [k \in DOMAIN sets |->
        [by |-> c, docId |-> sets[k].id,
         numbered |-> Numbering(loc[c].read[2]),
         code |-> IF "code" \in DOMAIN sets[k].item THEN sets[k].item.code ELSE EmptyStr]]

\* the commit is accepted only if the document read is still at the version read
CommitAcceptedAlways(c) == TRUE

CommitAccepted(c) == loc[c].read[1] = autonumVer

\* the commit request answers: every buffered write lands at once and
\* afterCreate() is invoked, or the store reports a conflict and the
\* transaction function is run again
CreateTxCommitToInstance(c) ==
  /\ pc[c] = "txCommit"
  /\ IF CommitAccepted(c)
     THEN LET after == ApplyWrites([docs |-> docs, autonum |-> autonum, ver |-> autonumVer],
                                   loc[c].writes)
          IN /\ docs' = after.docs
             /\ autonum' = after.autonum
             /\ autonumVer' = after.ver
             /\ created' = created \o Landed(c, loc[c].writes)
             /\ inst' = [inst EXCEPT ![c] = [k \in DOMAIN @ |-> loc[c].item[k]]]
             /\ Emit(c, Hook("afterCreate"))
             /\ Goto(c, "afterCreate")
             /\ UNCHANGED loc
     ELSE /\ loc' = [loc EXCEPT ![c].read = << >>, ![c].writes = << >>]
          /\ Emit(c, Request("transaction.get"))
          /\ Goto(c, "txGet")
          /\ UNCHANGED <<docs, autonum, autonumVer, created, inst>>
  /\ UNCHANGED <<children, authUser, clock, nextAuto, autonum0>>

CreateTxCommit(c) ==
  /\ pc[c] = "txCommit"
  /\ IF CommitAccepted(c)
     THEN LET after == ApplyWrites([docs |-> docs, autonum |-> autonum, ver |-> autonumVer],
                                   loc[c].writes)
          IN /\ docs' = after.docs
             /\ autonum' = after.autonum
             /\ autonumVer' = after.ver
             /\ created' = created \o Landed(c, loc[c].writes)
             /\ Emit(c, Hook("afterCreate"))
             /\ Goto(c, "afterCreate")
             /\ UNCHANGED loc
     ELSE /\ loc' = [loc EXCEPT ![c].read = << >>, ![c].writes = << >>]
          /\ Emit(c, Request("transaction.get"))
          /\ Goto(c, "txGet")
          /\ UNCHANGED <<docs, autonum, autonumVer, created>>
  /\ UNCHANGED <<children, authUser, clock, nextAuto, inst, autonum0>>

StoreError == Rejected("store", << >>)

\* the store fails the transaction (network, permission, too many conflicts):
\* nothing is written and create() rethrows
CreateTxFail(c) ==
  /\ pc[c] \in {"txGet", "txCommit"}
  /\ Settle(c, StoreError)
  /\ UNCHANGED <<storeVars, authUser, clock, nextAuto, inst, loc, log, autonum0, created>>

\* afterCreate() resolves: create() returns docRef
AfterCreateResolve(c) ==
  /\ pc[c] = "afterCreate"
  /\ Settle(c, Resolved(loc[c].docRef))
  /\ UNCHANGED <<storeVars, authUser, clock, nextAuto, inst, loc, log, autonum0, created>>

\* afterCreate() rejects: create() rethrows, the transaction stays committed
AfterCreateRejectRollback(c) ==
  /\ pc[c] = "afterCreate"
  /\ Settle(c, HookError("afterCreate"))
  /\ docs' = [d \in DOMAIN docs \ {loc[c].docRef} |-> docs[d]]
  /\ autonum' = loc[c].read[2]
  /\ UNCHANGED <<autonumVer, children, authUser, clock, nextAuto, inst, loc, log,
                 autonum0, created>>

AfterCreateReject(c) ==
  /\ pc[c] = "afterCreate"
  /\ Settle(c, HookError("afterCreate"))
  /\ UNCHANGED <<storeVars, authUser, clock, nextAuto, inst, loc, log, autonum0, created>>

Create(c) ==
  \/ \E arg \in {NoId} \cup ExplicitIds : CreateCall(c, arg)
  \/ BeforeCreateReject(c)
  \/ BeforeCreateResolve(c)
  \/ CreateTxGet(c)
  \/ CreateTxCommit(c)
  \/ CreateTxFail(c)
  \/ AfterCreateResolve(c)
  \/ AfterCreateReject(c)

\* ------------------------------------------------------------------ fetch
\* Object.keys(this).forEach(key => { if (key in data) this[key] = data[key] })
FetchCopyOrReset(i, data) ==
  [k \in DOMAIN i |-> IF k \in DOMAIN data THEN data[k] ELSE FreshInstance[k]]

FetchCopy(i, data) ==
  [k \in DOMAIN i |-> IF k \in DOMAIN data THEN data[k] ELSE i[k]]

\* initialize() without an item: the six base fields are reset
Initialize(i) ==
  [k \in DOMAIN i |-> IF k \in BaseFields THEN BaseInitial[k] ELSE i[k]]

FetchArgs == {NoId} \cup ExplicitIds \cup { inst[c].docId : c \in Clients }

\* fetch(docId): throws without a docId, else getDoc() is issued and awaited
FetchCall(c, arg) ==
  /\ IF arg = NoId
     THEN BeginSettled(c, "fetch", arg, Rejected("invalidArgument", << >>))
     ELSE /\ Begin(c, "fetch", arg, "getDoc", <<Request("getDoc")>>)
          /\ UNCHANGED lastOp
  /\ UNCHANGED <<storeVars, authUser, clock, nextAuto, inst, autonum0, created>>

\* getDoc() answers: the payload is copied, or the instance is initialized
FetchGetDoc(c) ==
  /\ pc[c] = "getDoc"
  /\ inst' = [inst EXCEPT ![c] = IF call[c].arg \in DOMAIN docs
                                 THEN FetchCopy(inst[c], docs[call[c].arg])
                                 ELSE Initialize(inst[c])]
  /\ Settle(c, Resolved(NoId))
  /\ UNCHANGED <<storeVars, authUser, clock, nextAuto, loc, log, autonum0, created>>

\* getDoc() rejects: fetch() rethrows
FetchFail(c) ==
  /\ pc[c] = "getDoc"
  /\ Settle(c, StoreError)
  /\ UNCHANGED <<storeVars, authUser, clock, nextAuto, inst, loc, log, autonum0, created>>

Fetch(c) ==
  \/ \E arg \in FetchArgs : FetchCall(c, arg)
  \/ FetchGetDoc(c)
  \/ FetchFail(c)

\* ------------------------------------------------------------------ update
\* update(): throws while docId is empty, else beforeUpdate() is invoked and awaited
UpdateCallUnguarded(c) ==
  /\ Begin(c, "update", NoId, "beforeUpdate", <<Hook("beforeUpdate")>>)
  /\ UNCHANGED <<storeVars, authUser, clock, nextAuto, inst, lastOp, autonum0, created>>

UpdateCall(c) ==
  /\ IF inst[c].docId = NoId
     THEN BeginSettled(c, "update", NoId, Rejected("invalidState", << >>))
     ELSE /\ Begin(c, "update", NoId, "beforeUpdate", <<Hook("beforeUpdate")>>)
          /\ UNCHANGED lastOp
  /\ UNCHANGED <<storeVars, authUser, clock, nextAuto, inst, autonum0, created>>

\* beforeUpdate() rejects: update() rethrows
BeforeUpdateRejectStamped(c) ==
  /\ pc[c] = "beforeUpdate"
  /\ Settle(c, HookError("beforeUpdate"))
  /\ inst' = [inst EXCEPT ![c].updateAt = UtcTime(clock)]
  /\ UNCHANGED <<storeVars, authUser, clock, nextAuto, loc, log, autonum0, created>>

BeforeUpdateReject(c) ==
  /\ pc[c] = "beforeUpdate"
  /\ Settle(c, HookError("beforeUpdate"))
  /\ UNCHANGED <<storeVars, authUser, clock, nextAuto, inst, loc, log, autonum0, created>>

StampUpdate(i, t) ==
  [i EXCEPT !.updateAt = UtcTime(t), !.updateDate = LocaleString(t), !.uid = CurrentUid]

\* const { createAt, createDate, ...item } = this
UpdateItemAll(i) == i

UpdateItem(i) == [k \in DOMAIN i \ {"createAt", "createDate"} |-> i[k]]

\* beforeUpdate() resolves: the instance is stamped and updateDoc() is issued
BeforeUpdateResolve(c) ==
  /\ pc[c] = "beforeUpdate"
  /\ LET stamped == StampUpdate(inst[c], clock)
     IN /\ inst' = [inst EXCEPT ![c] = stamped]
        /\ loc' = [loc EXCEPT ![c] = [NoLocals EXCEPT !.docRef = inst[c].docId,
                                                      !.item = UpdateItem(stamped)]]
  /\ clock' = clock + 1
  /\ Emit(c, Request("updateDoc"))
  /\ Goto(c, "updateDoc")
  /\ UNCHANGED <<storeVars, authUser, nextAuto, autonum0, created>>

\* updateDoc(docRef, item) on an existing document: the fields of item are merged
Merge(old, item) ==
  [k \in DOMAIN old \cup DOMAIN item |-> IF k \in DOMAIN item THEN item[k] ELSE old[k]]

\* updateDoc() answers: afterUpdate() is invoked, or update() rethrows because
\* there is no such document
UpdateDoc(c) ==
  /\ pc[c] = "updateDoc"
  /\ IF loc[c].docRef \in DOMAIN docs
     THEN /\ docs' = [docs EXCEPT ![loc[c].docRef] = Merge(@, loc[c].item)]
          /\ Emit(c, Hook("afterUpdate"))
          /\ Goto(c, "afterUpdate")
     ELSE /\ Settle(c, Rejected("store", <<"not-found">>))
          /\ UNCHANGED <<docs, log>>
  /\ UNCHANGED <<autonum, autonumVer, children, authUser, clock, nextAuto, inst, loc,
                 autonum0, created>>

AfterUpdateResolve(c) ==
  /\ pc[c] = "afterUpdate"
  /\ Settle(c, Resolved(loc[c].docRef))
  /\ UNCHANGED <<storeVars, authUser, clock, nextAuto, inst, loc, log, autonum0, created>>

AfterUpdateReject(c) ==
  /\ pc[c] = "afterUpdate"
  /\ Settle(c, HookError("afterUpdate"))
  /\ UNCHANGED <<storeVars, authUser, clock, nextAuto, inst, loc, log, autonum0, created>>

Update(c) ==
  \/ UpdateCall(c)
  \/ BeforeUpdateReject(c)
  \/ BeforeUpdateResolve(c)
  \/ UpdateDoc(c)
  \/ AfterUpdateResolve(c)
  \/ AfterUpdateReject(c)

\* ------------------------------------------------------------------ delete
\* where(item.field, item.condition, this.docId)
Matches(entry, child, docId) ==
  /\ child.collection = entry.collection
  /\ entry.condition = "=="
  /\ child[entry.field] = docId

\* snapshot.empty of query(colRef, whrObj, limit(1))
QueryEmptyAlways(entry, docId) == TRUE

QueryEmpty(entry, docId) == ~ \E child \in children : Matches(entry, child, docId)

\* delete(): throws while docId is empty, else #hasChild() issues its first query
\* (or, with nothing declared, answers false and beforeDelete() is invoked)
DeleteCall(c) ==
  /\ IF inst[c].docId = NoId
     THEN BeginSettled(c, "delete", NoId, Rejected("invalidState", << >>))
     ELSE /\ IF hasMany = << >>
             THEN Begin(c, "delete", NoId, "beforeDelete", <<Hook("beforeDelete")>>)
             ELSE Begin(c, "delete", NoId, "hasChild",
                        <<Event("getDocs", hasMany[1].collection)>>)
          /\ UNCHANGED lastOp
  /\ UNCHANGED <<storeVars, authUser, clock, nextAuto, inst, autonum0, created>>

DependencyError(entry, docId) == Rejected("dependency", <<entry.collection, docId>>)

\* getDocs() answers for one entry of hasMany: a match ends the loop and
\* delete() throws; otherwise the next entry is queried, and after the last
\* one beforeDelete() is invoked
HasChildQueryAll(c) ==
  /\ pc[c] = "hasChild"
  /\ LET i == Len(SelectSeq(log[c], LAMBDA ev : ev.e = "getDocs"))
         seen == loc[c].seen \cup
                   { ch \in children : Matches(hasMany[i], ch, inst[c].docId) }
     IN /\ loc' = [loc EXCEPT ![c].seen = seen]
        /\ IF i < Len(hasMany)
           THEN /\ Emit(c, Event("getDocs", hasMany[i + 1].collection))
                /\ Goto(c, "hasChild")
           ELSE IF seen # {}
           THEN /\ Settle(c, DependencyError(hasMany[i], inst[c].docId))
                /\ UNCHANGED log
           ELSE /\ Emit(c, Hook("beforeDelete"))
                /\ Goto(c, "beforeDelete")
  /\ UNCHANGED <<storeVars, authUser, clock, nextAuto, inst, autonum0, created>>

HasChildQuery(c) ==
  /\ pc[c] = "hasChild"
  /\ LET i == Len(SelectSeq(log[c], LAMBDA ev : ev.e = "getDocs"))
     IN /\ loc' = [loc EXCEPT ![c].seen = @ \cup
                     { ch \in children : Matches(hasMany[i], ch, inst[c].docId) }]
        /\ IF ~ QueryEmpty(hasMany[i], inst[c].docId)
           THEN /\ Settle(c, DependencyError(hasMany[i], inst[c].docId))
                /\ UNCHANGED log
           ELSE IF i < Len(hasMany)
           THEN /\ Emit(c, Event("getDocs", hasMany[i + 1].collection))
                /\ Goto(c, "hasChild")
           ELSE /\ Emit(c, Hook("beforeDelete"))
                /\ Goto(c, "beforeDelete")
  /\ UNCHANGED <<storeVars, authUser, clock, nextAuto, inst, autonum0, created>>

BeforeDeleteReject(c) ==
  /\ pc[c] = "beforeDelete"
  /\ Settle(c, HookError("beforeDelete"))
  /\ UNCHANGED <<storeVars, authUser, clock, nextAuto, inst, loc, log, autonum0, created>>

\* beforeDelete() resolves: deleteDoc() is issued
BeforeDeleteResolve(c) ==
  /\ pc[c] = "beforeDelete"
  /\ loc' = [loc EXCEPT ![c].docRef = inst[c].docId]
  /\ Emit(c, Request("deleteDoc"))
  /\ Goto(c, "deleteDoc")
  /\ UNCHANGED <<storeVars, authUser, clock, nextAuto, inst, autonum0, created>>

\* deleteDoc() answers: the document is gone and afterDelete() is invoked
DeleteDoc(c) ==
  /\ pc[c] = "deleteDoc"
  /\ docs' = [d \in DOMAIN docs \ {loc[c].docRef} |-> docs[d]]
  /\ Emit(c, Hook("afterDelete"))
  /\ Goto(c, "afterDelete")
  /\ UNCHANGED <<autonum, autonumVer, children, authUser, clock, nextAuto, inst, loc,
                 autonum0, created>>

AfterDeleteResolve(c) ==
  /\ pc[c] = "afterDelete"
  /\ Settle(c, Resolved(NoId))
  /\ UNCHANGED <<storeVars, authUser, clock, nextAuto, inst, loc, log, autonum0, created>>

AfterDeleteReject(c) ==
  /\ pc[c] = "afterDelete"
  /\ Settle(c, HookError("afterDelete"))
  /\ UNCHANGED <<storeVars, authUser, clock, nextAuto, inst, loc, log, autonum0, created>>

Delete(c) ==
  \/ DeleteCall(c)
  \/ HasChildQuery(c)
  \/ BeforeDeleteReject(c)
  \/ BeforeDeleteResolve(c)
  \/ DeleteDoc(c)
  \/ AfterDeleteResolve(c)
  \/ AfterDeleteReject(c)

\* ------------------------------------------------------------------ tokens
\* the characters of the strings that are tokenised: a lower-case and an
\* upper-case letter, two white-space characters, and LATIN CAPITAL LETTER I
\* WITH DOT ABOVE, which toLowerCase() turns into two characters
Alphabet == {"a", "B", " ", "\t", "U+0130"}

Whitespace == {" ", "\t"}

Strings(n) == UNION { [1..k -> Alphabet] : k \in 0..n }

\* ch.toLowerCase()
LowerChar(ch) ==
  CASE ch = "A" -> <<"a">>
    [] ch = "B" -> <<"b">>
    [] ch = "L" -> <<"l">>
    [] ch = "U+0130" -> <<"i", "U+0307">>
    [] OTHER -> <<ch>>

\* s.toLowerCase()
RECURSIVE ToLowerCase(_)
ToLowerCase(s) == IF s = << >> THEN << >> ELSE LowerChar(Head(s)) \o ToLowerCase(Tail(s))

\* value.replace(/\s+/g, '')
RemoveFirstWhitespace(value) ==
  IF \E i \in DOMAIN value : value[i] \in Whitespace
  THEN LET i == CHOOSE i \in DOMAIN value :
                  /\ value[i] \in Whitespace
                  /\ \A j \in 1..(i - 1) : value[j] \notin Whitespace
           j == CHOOSE j \in i..Len(value) :
                  /\ \A k \in i..j : value[k] \in Whitespace
                  /\ j = Len(value) \/ value[j + 1] \notin Whitespace
       IN SubSeq(value, 1, i - 1) \o SubSeq(value, j + 1, Len(value))
  ELSE value

RemoveWhitespace(value) == SelectSeq(value, LAMBDA ch : ch \notin Whitespace)

\* for (let i = 0; i <= target.length - n; i++)
\*   arr.push([target.substring(i, i + n).toLowerCase(), true])
Grams(target, n) ==
  [i \in 1..(Len(target) - n + 1) |-> <<ToLowerCase(SubSeq(target, i, i + n - 1)), TRUE>>]

\* Object.fromEntries(arr): a later entry of a key replaces an earlier one
FromEntries(arr) ==
  [key \in { arr[i][1] : i \in DOMAIN arr } |->
     LET last == CHOOSE i \in DOMAIN arr :
                   arr[i][1] = key /\ \A j \in DOMAIN arr : arr[j][1] = key => j <= i
     IN arr[last][2]]

GetNgramTokenMap(value) ==
  LET target == RemoveWhitespace(value)
  IN FromEntries(Grams(target, 1) \o Grams(target, 2))

\* getNgramTokenMap(value) is called: it returns at once
GetNgramTokenMapCall(c, value) ==
  /\ BeginSettled(c, "getNgramTokenMap", NoId,
                  [state |-> "resolved", type |-> "", info |-> <<value, GetNgramTokenMap(value)>>])
  /\ UNCHANGED <<storeVars, authUser, clock, nextAuto, inst, autonum0, created>>

\* #tokenFields as the subclass of each instance declares it: c1's class names
\* two of its fields and one it does not have, c2's class declares none
tokenFields == [c \in Clients |-> IF c = "c1" THEN <<"name", "code", "kana">> ELSE << >>]

\* what reading tokenMap yields: null, or a map
NullTokenMap == [null |-> TRUE, map |-> << >>]
SomeTokenMap(m) == [null |-> FALSE, map |-> m]

\* the entries the getter pushes for the token fields from the k-th on
RECURSIVE TokenEntries(_, _, _)
TokenEntries(i, fields, k) ==
  IF k > Len(fields) THEN << >>
  ELSE (IF fields[k] \in DOMAIN i
        THEN LET target == RemoveWhitespace(i[fields[k]])
             IN Grams(target, 1) \o Grams(target, 2)
        ELSE << >>)
       \o TokenEntries(i, fields, k + 1)

\* get tokenMap()
TokenMapNeverNull(i, fields) == SomeTokenMap(FromEntries(TokenEntries(i, fields, 1)))

TokenMap(i, fields) ==
  IF Len(fields) = 0 THEN NullTokenMap
  ELSE SomeTokenMap(FromEntries(TokenEntries(i, fields, 1)))

\* set tokenMap(v) {}: the assignment returns and nothing is stored
SetTokenMap(c) ==
  /\ BeginSettled(c, "setTokenMap", NoId, NoResult)
  /\ UNCHANGED <<storeVars, authUser, clock, nextAuto, inst, autonum0, created>>

\* ------------------------------------------------------------------ initialize
\* the payload given to initialize(): none, or an object whose entries are in
\* the order of Object.keys().  An entry is named by its key; "name?" is the
\* key name holding undefined
NoItem == [given |-> FALSE, entries |-> << >>]
Item(entries) == [given |-> TRUE, entries |-> entries]

\* base fields with a truthy and with a falsy value, a declared field with a
\* string and with undefined, a key the instance lacks, and tokenMap
PayloadEntries == {"docId", "createAt", "name", "name?", "legacy", "tokenMap"}

EntryKey(e) == IF e = "name?" THEN "name" ELSE e

EntryUndefined(e) == e = "name?"

EntryValue(e) ==
  CASE e = "docId" -> "x"
    [] e = "createAt" -> UtcTime(0)
    [] e = "name" -> <<"a", " ", "B">>
    [] e = "legacy" -> <<"old">>
    [] OTHER -> EmptyStr

Payloads(n) ==
  {NoItem} \cup
  { Item(entries) : entries \in
      { es \in UNION { [1..k -> PayloadEntries] : k \in 0..n } :
          \A a, b \in DOMAIN es : a # b => EntryKey(es[a]) # EntryKey(es[b]) } }

\* item?.[key]: the index of the entry, 0 when item has no such key
EntryOf(entries, key) ==
  IF \E n \in DOMAIN entries : EntryKey(entries[n]) = key
  THEN CHOOSE n \in DOMAIN entries : EntryKey(entries[n]) = key
  ELSE 0

\* !value for the value of a base field
Falsy(key, e) ==
  \/ EntryUndefined(e)
  \/ key \in {"docId", "uid"} /\ EntryValue(e) = ""
  \/ key \in {"createAt", "updateAt"} /\ EntryValue(e) \in {Null, UtcTime(0)}
  \/ key \in {"createDate", "updateDate"} /\ EntryValue(e) = EmptyStr

\* this.docId = item?.docId || '', and so on for the six base fields
InitializeBase(i, entries) ==
  [k \in DOMAIN i |->
     IF k \notin BaseFields THEN i[k]
     ELSE LET n == EntryOf(entries, k)
          IN IF n = 0 \/ Falsy(k, entries[n]) THEN BaseInitial[k]
             ELSE EntryValue(entries[n])]

\* key in this: an own field, or the accessor tokenMap
KeyInThisAlways(i, key) == TRUE

KeyInThis(i, key) == key \in DOMAIN i \cup {"tokenMap"}

\* JSON.parse(JSON.stringify(v)): a string, a number and null come back as
\* they are; JSON.stringify(undefined) is undefined, which JSON.parse() rejects
JsonRoundTrip(e) == [threw |-> EntryUndefined(e), value |-> EntryValue(e)]

\* Object.keys(item).forEach(key => { if (key in this)
\*   this[key] = JSON.parse(JSON.stringify(item[key])) })
RECURSIVE InitializeCopy(_, _)
InitializeCopy(i, entries) ==
  IF entries = << >> THEN [inst |-> i, threw |-> FALSE]
  ELSE LET e == Head(entries)
           key == EntryKey(e)
       IN IF ~ KeyInThis(i, key) THEN InitializeCopy(i, Tail(entries))
          ELSE IF JsonRoundTrip(e).threw THEN [inst |-> i, threw |-> TRUE]
          ELSE IF key = "tokenMap" THEN InitializeCopy(i, Tail(entries))
          ELSE InitializeCopy((key :> JsonRoundTrip(e).value) @@ i, Tail(entries))

InitializeWith(i, item) ==
  IF item.given THEN InitializeCopy(InitializeBase(i, item.entries), item.entries)
  ELSE [inst |-> Initialize(i), threw |-> FALSE]

\* initialize(item) is called on an idle instance: it returns, or it throws
InitializeCall(c, item) ==
  /\ BeginSettled(c, "initialize", item,
                  IF InitializeWith(inst[c], item).threw
                  THEN Rejected("syntax", << >>) ELSE Resolved(NoId))
  /\ inst' = [inst EXCEPT ![c] = InitializeWith(inst[c], item).inst]
  /\ UNCHANGED <<storeVars, authUser, clock, nextAuto, autonum0, created>>

\* ------------------------------------------------------------------ auth plugin
\* what the plugin and the masters store leave alone
modelVars == <<docs, autonum, autonumVer, children, clock, nextAuto, inst, pc, call, loc,
               res, log, calls, limit, interleave, prev, lastOp, autonum0, created>>

\* an invocation of the callback: the user it was given ("" for null) and the
\* await it is suspended at
Callback(user, at) == [user |-> user, at |-> at]

\* resolve() called by invocation k: the first call settles the promise, a
\* later one changes nothing
Resolve(p, k) == IF p.state = "pending" THEN [state |-> "resolved", by |-> k] ELSE p

\* the unsubscribe function onSnapshot() returned to invocation k for a collection
Listener(k, key) == [by |-> k, on |-> key]

\* mutation addMaster, for every document of a snapshot
AddMasters(store, key, ids) ==
  [store EXCEPT !.masters[key] = @ \cup ids]

\* mutation removeListener, committed for every key by action unsubscribe: the
\* listener in the slot is called, the slot keeps it, and every array is emptied
RemovedListeners(store) ==
  [store EXCEPT !.masters = [key \in Masters |-> {}]]

Detached(store) == { store.listeners[key][1] : key \in { k \in Masters : store.listeners[k] # NoListener } }

\* onAuthStateChanged reports a user, or null: the callback runs up to its
\* first await.  With a user that is getIdTokenResult(); with null, setUser(null)
\* is committed and unsubscribe is dispatched, which runs to its end at once
AuthStateChanged(user) ==
  /\ Len(callbacks) < MaxAuthChanges
  /\ callbacks = << >> \/ user # authUser
  /\ authUser' = user
  /\ IF user # ""
     THEN /\ callbacks' = Append(callbacks, Callback(user, "getIdTokenResult"))
          /\ UNCHANGED <<vuex, attached>>
     ELSE /\ callbacks' = Append(callbacks, Callback(user, "unsubscribe"))
          /\ vuex' = RemovedListeners([vuex EXCEPT !.user = ""])
          /\ attached' = attached \ Detached(vuex)
  /\ UNCHANGED <<promise, modelVars>>

\* getIdTokenResult() answers: setUser(user) is committed and subscribe is
\* dispatched, which issues getDocs() for every master collection and awaits them
GetIdTokenResult(k) ==
  /\ k \in DOMAIN callbacks
  /\ callbacks[k].at = "getIdTokenResult"
  /\ vuex' = [vuex EXCEPT !.user = callbacks[k].user]
  /\ callbacks' = [callbacks EXCEPT ![k].at = "getDocs"]
  /\ UNCHANGED <<authUser, attached, promise, modelVars>>

\* getIdTokenResult() rejects: the callback ends there
GetIdTokenResultFail(k) ==
  /\ k \in DOMAIN callbacks
  /\ callbacks[k].at = "getIdTokenResult"
  /\ callbacks' = [callbacks EXCEPT ![k].at = "done"]
  /\ UNCHANGED <<authUser, vuex, attached, promise, modelVars>>

RECURSIVE Subscribed(_, _, _)
Subscribed(store, k, keys) ==
  IF keys = {} THEN store
  ELSE LET key == CHOOSE key \in keys : TRUE
       IN Subscribed([AddMasters(store, key, DOMAIN docs)
                        EXCEPT !.listeners[key] = <<Listener(k, key)>>],
                     k, keys \ {key})

\* the getDocs() of subscribe answer: the documents are added to the arrays, a
\* snapshot listener is attached to every master collection and put in its
\* slot; subscribe returns and the callback calls resolve()
SubscribeGetDocs(k) ==
  /\ k \in DOMAIN callbacks
  /\ callbacks[k].at = "getDocs"
  /\ vuex' = Subscribed(vuex, k, Masters)
  /\ attached' = attached \cup { Listener(k, key) : key \in Masters }
  /\ callbacks' = [callbacks EXCEPT ![k].at = "done"]
  /\ promise' = Resolve(promise, k)
  /\ UNCHANGED <<authUser, modelVars>>

\* a getDocs() of subscribe rejects: subscribe catches, and the callback calls
\* resolve()
SubscribeFail(k) ==
  /\ k \in DOMAIN callbacks
  /\ callbacks[k].at = "getDocs"
  /\ callbacks' = [callbacks EXCEPT ![k].at = "done"]
  /\ promise' = Resolve(promise, k)
  /\ UNCHANGED <<authUser, vuex, attached, modelVars>>

\* the promise of unsubscribe is awaited: the callback calls resolve()
Unsubscribed(k) ==
  /\ k \in DOMAIN callbacks
  /\ callbacks[k].at = "unsubscribe"
  /\ callbacks' = [callbacks EXCEPT ![k].at = "done"]
  /\ promise' = Resolve(promise, k)
  /\ UNCHANGED <<authUser, vuex, attached, modelVars>>

\* an attached listener receives a snapshot: its documents are added
Snapshot(l) ==
  /\ l \in attached
  /\ vuex' = AddMasters(vuex, l.on, DOMAIN docs)
  /\ UNCHANGED <<authUser, callbacks, attached, promise, modelVars>>

\* ------------------------------------------------------------------ environment
\* the application assigns a field of an idle instance
Assign(c, field, value) ==
  /\ inst[c][field] # value
  /\ BeginSettled(c, "assign", NoId, NoResult)
  /\ inst' = [inst EXCEPT ![c][field] = value]
  /\ UNCHANGED <<storeVars, authUser, clock, nextAuto, autonum0, created>>

\* another writer adds a document that refers to a document of the collection
WriteChild(col, ref) ==
  /\ Cardinality(children) < MaxChildWrites
  /\ interleave \/ \A o \in Clients : pc[o] = "idle"
  /\ children' = children \cup {[collection |-> col, customerId |-> ref]}
  /\ UNCHANGED <<docs, autonum, autonumVer, authUser, clock, nextAuto, inst, pc, call,
                 loc, res, log, calls, limit, interleave, prev, lastOp, autonum0, created,
                 appVars>>

\* an administrator flips the condition of the autonumber document, once
SetCondition ==
  /\ autonum.exists
  /\ autonum.condition = autonum0.condition
  /\ autonum' = [autonum EXCEPT !.condition = ~ @]
  /\ autonumVer' = autonumVer + 1
  /\ UNCHANGED <<docs, children, authUser, clock, nextAuto, inst, pc, call, loc, res, log,
                 calls, limit, interleave, prev, lastOp, autonum0, created, appVars>>

Environment ==
  \/ \E c \in Clients : Assign(c, "name", <<"A">>)
  \/ \E c \in Clients : Assign(c, "code", <<"7">>)
  \/ \E i \in DOMAIN hasMany, ref \in DOMAIN docs : WriteChild(hasMany[i].collection, ref)

\* ------------------------------------------------------------------ specifications
Step(c) == Create(c) \/ Fetch(c) \/ Update(c) \/ Delete(c)

Next == (\E c \in Clients : Step(c)) \/ Environment

\* one operation at a time: an operation runs to its end before the next is called
Init == Start /\ limit = MaxCalls /\ interleave = FALSE

Spec == Init /\ [][Next]_vars

\* create() calls of several instances, interleaved at every await
InitCreate == Start /\ docs = NoDocs /\ limit = MaxConcurrentCalls /\ interleave = TRUE

NextCreate == \E c \in Clients : Create(c)

SpecCreate == InitCreate /\ [][NextCreate]_vars

\* delete() calls interleaved with fetches and with writers of dependent documents
InitDelete == Start /\ docs # NoDocs /\ limit = MaxConcurrentCalls /\ interleave = TRUE

NextDelete ==
  \/ \E c \in Clients : Fetch(c) \/ Delete(c)
  \/ \E i \in DOMAIN hasMany, ref \in DOMAIN docs : WriteChild(hasMany[i].collection, ref)

SpecDelete == InitDelete /\ [][NextDelete]_vars

\* create(), fetch() and update() calls, one at a time, on instances whose
\* creation timestamps the application may overwrite in memory
InitUpdate == Start /\ autonum = NoAutonum /\ limit = MaxUpdateCalls /\ interleave = FALSE

NextUpdate ==
  \/ \E c \in Clients : Create(c) \/ Fetch(c) \/ Update(c)
  \/ \E c \in Clients : Assign(c, "createAt", Null)
  \/ \E c \in Clients : Assign(c, "createDate", EmptyStr)

SpecUpdate == InitUpdate /\ [][NextUpdate]_vars

\* create() calls interleaved with an administrator's write to the autonumber document
InitAdmin == Start /\ docs = NoDocs /\ limit = MaxCalls /\ interleave = TRUE

NextAdmin == (\E c \in Clients : Create(c)) \/ SetCondition

SpecAdmin == InitAdmin /\ [][NextAdmin]_vars

\* getNgramTokenMap() applied to every string of up to MaxLen characters; the
\* method reads and writes no field, so one instance calls it
InitNgram ==
  Start /\ docs = NoDocs /\ autonum = NoAutonum /\ limit = MaxCalls /\ interleave = FALSE

Tokeniser == "c1"

NextNgram == \E value \in Strings(MaxLen) : GetNgramTokenMapCall(Tokeniser, value)

SpecNgram == InitNgram /\ [][NextNgram]_vars

\* initialize() calls and field assignments on one instance: initialize()
\* reads and writes nothing but the fields of the instance it is called on
InitInitialize ==
  Start /\ docs = NoDocs /\ autonum = NoAutonum /\ limit = MaxCalls /\ interleave = FALSE

Initialized == "c1"

NextInitialize ==
  \/ \E item \in Payloads(MaxKeys) : InitializeCall(Initialized, item)
  \/ Assign(Initialized, "name", <<"A">>)
  \/ Assign(Initialized, "code", <<"7">>)

SpecInitialize == InitInitialize /\ [][NextInitialize]_vars

\* every operation that writes a field of an instance, and assignments to tokenMap
InitFields ==
  Start /\ docs # NoDocs /\ authUser = "u1" /\ limit = MaxCalls /\ interleave = FALSE

NextFields ==
  \/ \E c \in Clients : Create(c) \/ Fetch(c) \/ Update(c)
  \/ \E c \in Clients, item \in Payloads(1) : InitializeCall(c, item)
  \/ \E c \in Clients, value \in Strings(2) : Assign(c, "name", value)
  \/ \E c \in Clients : Assign(c, "code", <<"7">>)
  \/ \E c \in Clients : SetTokenMap(c)

SpecFields == InitFields /\ [][NextFields]_vars

\* the auth plugin: auth-state changes and the callbacks they start
InitAuth ==
  Start /\ docs # NoDocs /\ authUser = "" /\ limit = MaxCalls /\ interleave = FALSE

NextAuth ==
  \/ \E user \in {"", "u1"} : AuthStateChanged(user)
  \/ \E k \in 1..MaxAuthChanges :
        \/ GetIdTokenResult(k)
        \/ GetIdTokenResultFail(k)
        \/ SubscribeGetDocs(k)
        \/ SubscribeFail(k)
        \/ Unsubscribed(k)
  \/ \E k \in 1..MaxAuthChanges, key \in Masters : Snapshot(Listener(k, key))

SpecAuth == InitAuth /\ [][NextAuth]_vars

\* create(), update() and delete() calls on one instance whose code the
\* application may assign, one at a time: what a create() leaves on the
\* instance it was called on
InitAbort == Start /\ limit = MaxUpdateCalls /\ interleave = FALSE

Creator == "c1"

NextAbort ==
  \/ Create(Creator) \/ Update(Creator) \/ Delete(Creator)
  \/ Assign(Creator, "code", <<"7">>)

SpecAbort == InitAbort /\ [][NextAbort]_vars

\* ------------------------------------------------------------------ properties
Idle(cs) == \A c \in cs : pc[c] = "idle"

\* numbering was enabled initially
Enabled0 == autonum0.exists /\ autonum0.condition

\* the entries of the history whose transaction numbered the document
NumberedCreated == { k \in DOMAIN created : created[k].numbered }

\* the transaction function of c's create() has been run more than once
Retried(c) ==
  /\ call[c].op = "create"
  /\ Len(SelectSeq(log[c], LAMBDA ev : ev.e = "transaction.get")) >= 2

RECURSIVE Pow10(_)
Pow10(k) == IF k <= 0 THEN 1 ELSE 10 * Pow10(k - 1)

\* condition true and current = 10^length - 1
AtLastCode(a) == a.exists /\ a.condition /\ a.length >= 1 /\ a.current = Pow10(a.length) - 1

\* C1: with numbering enabled, no two documents created by interleaved create()
\* calls carry the same code, and once every call has finished current is its
\* initial value plus the number of creates whose document was created (a
\* create whose transaction committed, whether or not afterCreate() then failed).
C1_ConcurrentCreates ==
  Enabled0 =>
    /\ \A i, j \in DOMAIN created : i # j => created[i].code # created[j].code
    /\ Idle(Clients) => autonum.current = autonum0.current + Len(created)

\* two instances created a document each, one of them after a conflict, and all calls are over
C1_Witness ==
  /\ Enabled0
  /\ Idle(Clients)
  /\ Len(created) >= 2
  /\ created[1].by # created[2].by
  /\ \E c \in Clients : Retried(c)

\* C2: in every state, also while transactions are running, after an abort and
\* after a retry, current has been incremented exactly once for each document
\* written with an allocated code, and the k-th such document carries the k-th code.
C2_AtomicUnit ==
  /\ autonum.current = autonum0.current + Cardinality(NumberedCreated)
  /\ \A k \in NumberedCreated :
       created[k].code = NewCode(autonum0.current + k, autonum0.length)

\* one transaction was retried, one create() failed in its transaction, one document is numbered
C2_Witness ==
  /\ NumberedCreated # {}
  /\ \E c \in Clients : Retried(c)
  /\ \E c \in Clients : call[c].op = "create" /\ res[c].type \in {"store", "exhausted"}

\* C3: while the autonumber document is enabled and at current = 10^length - 1,
\* no step writes a document or changes the autonumber document, and a create()
\* whose transaction function runs is rejected there (with the exhaustion error
\* unless the store failed first) without reaching a commit.
C3_Exhausted ==
  [][ AtLastCode(autonum) =>
        /\ docs' = docs
        /\ autonum' = autonum
        /\ created' = created
        /\ \A c \in Clients :
             (pc[c] = "txGet" /\ pc'[c] # "txGet") =>
               /\ pc'[c] = "idle"
               /\ res'[c] \in {ExhaustedError, StoreError} ]_vars

\* length 2, current 99: a create() has failed with the exhaustion error
C3_Witness ==
  /\ autonum.condition /\ autonum.length = 2 /\ autonum.current = 99
  /\ \E c \in Clients : res[c] = ExhaustedError /\ inst[c].docId \notin DOMAIN docs

\* num zero-padded to length digits, never cut
ZeroPad(num, length) == Zeros(length - Len(NumToString(num))) \o NumToString(num)

\* C4: whatever current and length (>= 1) are, a code that create() assigns is
\* current + 1 zero-padded to length digits, and no code is assigned when
\* current + 1 needs more than length digits.
C4_PaddedOrFails ==
  \A k \in NumberedCreated :
    /\ Len(NumToString(autonum0.current + k)) <= autonum0.length
    /\ created[k].code = ZeroPad(autonum0.current + k, autonum0.length)

\* the dependent documents that refer to docId
Dependents(docId) == { ch \in children : ch.customerId = docId }

Invoked(c, hook) == \E k \in DOMAIN log[c] : log[c][k].e = hook

\* C5: while a delete() runs on an instance that has a dependent document, no
\* step changes the collection or the dependent documents, beforeDelete() is not
\* invoked, and the delete() settles rejected with an error naming the
\* collection of a matching hasMany entry and the instance's docId.
C5_DeleteRefused ==
  [][ \A c \in Clients :
        (call[c].op = "delete" /\ pc[c] # "idle" /\ Dependents(inst[c].docId) # {}) =>
          /\ docs' = docs
          /\ children' = children
          /\ ~ Invoked(c, "beforeDelete")'
          /\ pc'[c] = "idle" =>
               /\ res'[c].state = "rejected"
               /\ res'[c].type = "dependency"
               /\ res'[c].info[1] \in { ch.collection : ch \in Dependents(inst[c].docId) }
               /\ res'[c].info[2] = inst[c].docId ]_vars

\* a delete() has been refused and its document is still stored
C5_Witness ==
  \E c \in Clients :
    /\ lastOp = [by |-> c, op |-> "delete", arg |-> NoId]
    /\ res[c].type = "dependency"
    /\ inst[c].docId \in DOMAIN docs
    /\ Dependents(inst[c].docId) # {}

\* C6 as stated: a document is never removed at a moment when a dependent
\* document refers to it.
C6_NeverRemovedWithChild ==
  [][ \A d \in DOMAIN docs : d \notin DOMAIN docs' => Dependents(d) = {} ]_vars

\* C6 as amended: a document is removed only by a delete() that queried every
\* hasMany entry and found no matching dependent document at the moment each
\* query was answered; a dependent document written after its entry was
\* queried does not stop the removal.
C6_RemovedOnlyAfterEmptyQueries ==
  [][ \A d \in DOMAIN docs : d \notin DOMAIN docs' =>
        \E c \in Clients :
          /\ call[c].op = "delete" /\ pc[c] = "deleteDoc" /\ pc'[c] = "afterDelete"
          /\ inst[c].docId = d
          /\ Len(SelectSeq(log[c], LAMBDA ev : ev.e = "getDocs")) = Len(hasMany)
          /\ loc[c].seen = {} ]_vars

\* a delete() removed its document although a dependent document, written
\* after the queries, refers to it
C6_Witness ==
  \E c \in Clients :
    /\ call[c].op = "delete" /\ pc[c] = "afterDelete"
    /\ inst[c].docId \notin DOMAIN docs
    /\ Dependents(inst[c].docId) # {}
    /\ loc[c].seen = {}

\* the fields compared by a round trip: all but the local-time strings
RoundTripFields == Fields \ {"createDate", "updateDate"}

\* f, a fresh instance, fetched the document that c had just created
FetchedAfterCreate(c, f) ==
  /\ c # f
  /\ Idle(Clients)
  /\ lastOp.by = f /\ lastOp.op = "fetch" /\ res[f].state = "resolved" /\ call[f].fresh
  /\ prev[f].by = c /\ prev[f].op = "create"
  /\ call[c].op = "create" /\ res[c].state = "resolved"
  /\ lastOp.arg = inst[c].docId

\* C7: after a successful create(), a fetch(docId) on a fresh instance yields,
\* for every field but createDate and updateDate, the value the creating
\* instance holds, whatever the autonumber document is.
C7_RoundTrip ==
  \A c, f \in Clients :
    FetchedAfterCreate(c, f) => \A k \in RoundTripFields : inst[f][k] = inst[c][k]

\* c's fetch() of an id without a document has just resolved
FetchedMissing(c) ==
  /\ Idle(Clients)
  /\ lastOp.by = c /\ lastOp.op = "fetch" /\ res[c].state = "resolved"
  /\ lastOp.arg \notin DOMAIN docs

\* C8: a fetch() of an id without a document resolves and leaves every field of
\* the instance, base and subclass-defined, at its initial value.
C8_FetchMissingResets ==
  \A c \in Clients : FetchedMissing(c) => inst[c] = FreshInstance

\* c is the instance an operation is called on in this step
Caller(c) ==
  /\ calls' = calls + 1
  /\ IF pc' = pc THEN lastOp'.by = c ELSE pc'[c] # pc[c]

\* C9: fetch() without a document id, and update() or delete() on an instance
\* whose docId is empty, are rejected at the call: no hook is invoked, no store
\* request is issued, and the instances and the store stay as they were.
C9_GuardsFailFirst ==
  [][ \A c \in Clients :
        ( /\ Caller(c)
          /\ \/ call'[c].op = "fetch" /\ call'[c].arg = NoId
             \/ call'[c].op \in {"update", "delete"} /\ inst[c].docId = NoId ) =>
          /\ pc'[c] = "idle"
          /\ res'[c].state = "rejected"
          /\ res'[c].type = IF call'[c].op = "fetch" THEN "invalidArgument" ELSE "invalidState"
          /\ log'[c] = << >>
          /\ inst' = inst
          /\ storeVars' = storeVars ]_vars

\* an update() before any create() or fetch(), and a fetch() without an id, have been rejected
C9_Witness ==
  \E c, o \in Clients :
    /\ call[c].op = "update" /\ res[c].type = "invalidState" /\ inst[c] = FreshInstance
    /\ call[o].op = "fetch" /\ res[o].type = "invalidArgument"

\* C10: a fetch() of an existing document sets the instance fields that are
\* keys of the payload to the payload's values, leaves the other instance fields
\* as they were, adds no field to the instance and leaves the store alone.
C10_FetchCopies ==
  [][ \A c \in Clients :
        ( /\ pc[c] = "getDoc" /\ pc'[c] = "idle" /\ res'[c].state = "resolved"
          /\ call[c].arg \in DOMAIN docs ) =>
          /\ DOMAIN inst'[c] = DOMAIN inst[c]
          /\ \A k \in DOMAIN inst[c] :
               inst'[c][k] = IF k \in DOMAIN docs[call[c].arg]
                             THEN docs[call[c].arg][k] ELSE inst[c][k]
          /\ storeVars' = storeVars ]_vars

\* an instance holding a code fetched the legacy document, which has no code
\* and has a key the instance lacks
C10_Witness ==
  \E c \in Clients :
    /\ Idle(Clients)
    /\ lastOp = [by |-> c, op |-> "fetch", arg |-> "x"] /\ res[c].state = "resolved"
    /\ "x" \in DOMAIN docs
    /\ "legacy" \in DOMAIN docs["x"] /\ "code" \notin DOMAIN docs["x"]
    /\ inst[c].code = <<"7">> /\ inst[c].name = <<"L">>

\* the keys of a stored document that update() must leave alone
Immutable(doc) == { k \in DOMAIN doc : k \in {"createAt", "createDate"} \/ k \notin Fields }

\* C11: no step of an update() changes, adds or removes the createAt or
\* createDate of a stored document, or a stored field that is not a field of the
\* instance, also when the instance's createAt/createDate were overwritten in
\* memory before the call.
C11_UpdateKeepsCreation ==
  [][ \A c \in Clients :
        (call[c].op = "update" /\ pc[c] # "idle") =>
          \A d \in DOMAIN docs :
            /\ d \in DOMAIN docs'
            /\ Immutable(docs'[d]) = Immutable(docs[d])
            /\ \A k \in Immutable(docs[d]) : docs'[d][k] = docs[d][k] ]_vars

\* an update() succeeded on an instance whose createAt had been overwritten in
\* memory, on a document that has a key the instance lacks
C11_Witness ==
  \E c \in Clients :
    /\ lastOp = [by |-> c, op |-> "update", arg |-> NoId] /\ res[c].state = "resolved"
    /\ inst[c].docId \in DOMAIN docs
    /\ inst[c].createAt = Null
    /\ docs[inst[c].docId].createAt # Null
    /\ docs[inst[c].docId].updateAt = inst[c].updateAt
    /\ "legacy" \in DOMAIN docs[inst[c].docId]

\* C12: once the docId of an instance is non-empty, no step of a create(),
\* fetch(), update() or delete() on that instance changes it to another value
\* or back to empty.
C12_DocIdAssignedOnce ==
  [][ \A c \in Clients :
        inst[c].docId # NoId => inst'[c].docId = inst[c].docId ]_vars

BeforeHooks == {"beforeCreate", "beforeUpdate", "beforeDelete"}

\* what an operation has issued by the time its before-hook settles: the hook
\* itself and, in delete(), the queries of #hasChild() that precede it
UpToBeforeHook(hook) == {hook} \cup (IF hook = "beforeDelete" THEN {"getDocs"} ELSE {})

\* C13: when beforeCreate(), beforeUpdate() or beforeDelete() rejects, the
\* operation settles at once, rejected with the hook's error: nothing more is
\* issued (no store request, no after-hook; up to then only the hook and, in
\* delete(), the #hasChild() queries were), and the instances (docId,
\* timestamps, uid included) and the store stay as they were.
C13_BeforeHookAborts ==
  [][ \A c \in Clients :
        (pc[c] \in BeforeHooks /\ pc'[c] = "idle") =>
          /\ res'[c] = HookError(pc[c])
          /\ log'[c] = log[c]
          /\ \A k \in DOMAIN log[c] : log[c][k].e \in UpToBeforeHook(pc[c])
          /\ inst' = inst
          /\ storeVars' = storeVars
          /\ clock' = clock /\ nextAuto' = nextAuto ]_vars

\* an update() on a created instance was rejected by beforeUpdate(): the
\* instance still carries the stamps of its create()
C13_Witness ==
  \E c \in Clients :
    /\ lastOp = [by |-> c, op |-> "update", arg |-> NoId]
    /\ res[c] = HookError("beforeUpdate")
    /\ inst[c].docId \in DOMAIN docs
    /\ inst[c].updateAt # Null /\ inst[c].updateAt = inst[c].createAt

\* C14: when afterCreate() settles, rejected or not, nothing is rolled back:
\* a rejection is create()'s rejection, the store is left as the committed
\* transaction made it, the new document is stored as written, and with
\* numbering enabled current stays at the incremented value.
C14_AfterCreateKeeps ==
  [][ \A c \in Clients :
        (pc[c] = "afterCreate" /\ pc'[c] = "idle") =>
          /\ res'[c].state = "rejected" => res'[c] = HookError("afterCreate")
          /\ storeVars' = storeVars
          /\ loc[c].docRef \in DOMAIN docs'
          /\ docs'[loc[c].docRef] = loc[c].item
          /\ Numbering(loc[c].read[2]) => autonum'.current = TxNum(loc[c].read[2]) ]_vars

\* with numbering enabled, a create() was rejected by afterCreate(): its
\* document is stored with its code and current is incremented
C14_Witness ==
  \E c \in Clients :
    /\ Enabled0
    /\ lastOp.by = c /\ lastOp.op = "create"
    /\ res[c] = HookError("afterCreate")
    /\ inst[c].docId \in DOMAIN docs
    /\ docs[inst[c].docId].code = NewCode(autonum.current, autonum.length)
    /\ autonum.current > autonum0.current

\* C15: a create() whose transaction read the autonumber document as absent or
\* with condition false does not fail with the exhaustion error, and its commit
\* stores exactly the instance's field values and leaves the autonumber
\* document as it is.
C15_NumberingSkipped ==
  [][ \A c \in Clients :
        /\ (pc[c] = "txGet" /\ ~ Numbering(autonum)) => res'[c] # ExhaustedError
        /\ (pc[c] = "txCommit" /\ pc'[c] = "afterCreate" /\ ~ Numbering(loc[c].read[2])) =>
             /\ docs'[loc[c].docRef] = inst[c]
             /\ autonum' = autonum ]_vars

\* c's call of getNgramTokenMap() has returned: its argument and its result
Tokenised(c) == call[c].op = "getNgramTokenMap" /\ res[c].state = "resolved"
TokenInput(c) == res[c].info[1]
TokenOutput(c) == res[c].info[2]

\* s without its white-space characters
RECURSIVE Stripped(_)
Stripped(s) ==
  IF s = << >> THEN << >>
  ELSE IF Head(s) \in Whitespace THEN Stripped(Tail(s))
  ELSE <<Head(s)>> \o Stripped(Tail(s))

\* the key set is the lower-cased substrings of length 1 and 2 of the stripped
\* argument, every key maps to true, no key holds white space, and the map is
\* empty when the argument has no other character
ExactKeys(c) ==
  LET t == Stripped(TokenInput(c))
      subs == { SubSeq(t, i, j) : i \in 1..Len(t), j \in 1..Len(t) }
  IN /\ DOMAIN TokenOutput(c) = { ToLowerCase(u) : u \in { v \in subs : Len(v) \in {1, 2} } }
     /\ \A key \in DOMAIN TokenOutput(c) :
          /\ TokenOutput(c)[key] = TRUE
          /\ \A i \in DOMAIN key : key[i] \notin Whitespace
     /\ (\A i \in DOMAIN TokenInput(c) : TokenInput(c)[i] \in Whitespace)
          => TokenOutput(c) = << >>

DerivedKeys(c) ==
  UNION { DOMAIN GetNgramTokenMap(inst[c][tokenFields[c][k]]) :
            k \in { n \in DOMAIN tokenFields[c] : tokenFields[c][n] \in DOMAIN inst[c] } }

\* C17: in every state, reading tokenMap yields null if and only if the
\* instance's class declares no token field, and otherwise the map that has
\* exactly the keys of getNgramTokenMap() of the current value of each declared
\* token field, each mapped to true; assignments to tokenMap change nothing.
C17_TokenMapDerived ==
  \A c \in Clients :
    /\ TokenMap(inst[c], tokenFields[c]).null <=> Len(tokenFields[c]) = 0
    /\ Len(tokenFields[c]) # 0 =>
         TokenMap(inst[c], tokenFields[c]) = SomeTokenMap([key \in DerivedKeys(c) |-> TRUE])

\* after an assignment to its name and then to its tokenMap, the instance of
\* the class with token fields reads a map with the 2-gram of its name, and
\* the instance of the class without token fields reads null
C17_Witness ==
  /\ lastOp.by = "c1" /\ lastOp.op = "setTokenMap"
  /\ inst["c1"].name = <<"a", "B">>
  /\ DOMAIN TokenMap(inst["c1"], tokenFields["c1"]).map = { <<"a">>, <<"b">>, <<"a", "b">> }
  /\ TokenMap(inst["c2"], tokenFields["c2"]) = NullTokenMap

Queried(c) == SelectSeq(log[c], LAMBDA ev : ev.e = "getDocs")

\* a dependent document of the entry's collection refers to docId
HasDependent(entry, docId) ==
  \E ch \in Dependents(docId) : ch.collection = entry.collection

\* what a delete() has issued: queries, then a prefix of the three steps
DeleteLogInOrder(c) ==
  \E n \in 0..3 :
    log[c] = Queried(c) \o SubSeq(<<Hook("beforeDelete"), Request("deleteDoc"),
                                    Hook("afterDelete")>>, 1, n)

CallbacksDone == \A k \in DOMAIN callbacks : callbacks[k].at = "done"

\* C20: once every invocation of the onAuthStateChanged callback has returned
\* and the user reported last is null, the store's user is null, no snapshot
\* listener is attached to a master collection, and every master array is empty.
C20_SignedOutClean ==
  (callbacks # << >> /\ CallbacksDone /\ authUser = "") =>
    /\ vuex.user = ""
    /\ attached = {}
    /\ \A key \in Masters : vuex.masters[key] = {}

\* C21: the plugin's promise is resolved only by the first invocation of the
\* onAuthStateChanged callback, after it committed setUser and the subscribe
\* or unsubscribe it dispatched completed, and at that moment the store's user
\* is the user that invocation was given (null when signed out).
C21_ResolvedAfterFirstCallback ==
  [][ (promise.state = "pending" /\ promise'.state = "resolved") =>
        /\ promise'.by = 1
        /\ vuex'.user = callbacks[1].user ]_vars

\* the instance carries the stamps its running create() made: the id of the
\* document reference, and the timestamps and uid that were copied into item
StampedByCreate(c) ==
  /\ inst[c].docId = loc[c].docRef /\ inst[c].docId # NoId
  /\ \A k \in BaseFields \ {"docId"} : inst[c][k] = loc[c].item[k]
  /\ inst[c].createAt # Null /\ inst[c].updateAt # Null /\ inst[c].uid # ""

\* C22: create() stamps the instance when beforeCreate() has resolved, before
\* the transaction.  A create() that settles from its transaction (numbering
\* exhausted or store failure) has written nothing (the store is as it was, no
\* commit was made, a generated id names no document) and leaves the instance
\* stamped, with a non-empty docId, createAt, updateAt and uid; an update() or
\* delete() then called on that instance passes the docId precondition
\* (update() invokes beforeUpdate(), delete() issues its first query).  A
\* create() leaves the instance as it was exactly when beforeCreate() rejected.
C22_AbortLeavesStamps ==
  [][ \A c \in Clients :
        /\ (pc[c] = "beforeCreate" /\ pc'[c] = "txGet") =>
             /\ inst'[c].docId # NoId
             /\ inst'[c].createAt \notin {Null, inst[c].createAt}
             /\ inst'[c].updateAt \notin {Null, inst[c].updateAt}
             /\ inst'[c].uid # ""
        /\ (pc[c] \in {"txGet", "txCommit"} /\ pc'[c] = "idle") =>
             /\ res'[c] \in {ExhaustedError, StoreError}
             /\ storeVars' = storeVars
             /\ ~ Invoked(c, "afterCreate")
             /\ call[c].arg = NoId => inst[c].docId \notin DOMAIN docs'
             /\ inst'[c] = inst[c]
             /\ StampedByCreate(c)
        /\ (pc[c] = "afterCreate" /\ pc'[c] = "idle") =>
             (inst'[c] = inst[c] /\ StampedByCreate(c))
        /\ (call[c].op = "create" /\ pc[c] # "idle" /\ pc'[c] = "idle") =>
             (res'[c] = HookError("beforeCreate") <=> pc[c] = "beforeCreate")
        /\ (pc[c] = "beforeCreate" /\ pc'[c] = "idle") =>
             (inst'[c] = inst[c] /\ log[c] = <<Hook("beforeCreate")>>)
        /\ ( /\ Caller(c)
             /\ call[c].op = "create" /\ res[c].type \in {"exhausted", "store"}
             /\ call'[c].op \in {"update", "delete"} ) =>
             /\ res'[c] = NoResult
             /\ pc'[c] = IF call'[c].op = "update" THEN "beforeUpdate" ELSE "hasChild"
             /\ log'[c] = IF call'[c].op = "update" THEN <<Hook("beforeUpdate")>>
                          ELSE <<Event("getDocs", hasMany[1].collection)>> ]_vars

\* a create() failed for exhausted numbering, and the update() called next on
\* the instance reached the store, which has no document of that id
C22_Witness ==
  \E c \in Clients :
    /\ AtLastCode(autonum)
    /\ lastOp = [by |-> c, op |-> "update", arg |-> NoId]
    /\ prev[c].by = c /\ prev[c].op = "create"
    /\ res[c] = Rejected("store", <<"not-found">>)
    /\ log[c] = <<Hook("beforeUpdate"), Request("updateDoc")>>
    /\ inst[c].docId # NoId /\ inst[c].docId \notin DOMAIN docs
    /\ inst[c].createAt # Null /\ inst[c].uid # ""

\* C23: the transaction of create() writes the allocated code to the stored
\* document only.  When a commit that numbered the document lands, the stored
\* document holds the new code in the numbered field and the instance's values
\* in its other fields; no step of a create() or of an update() changes the
\* instance's field of that name; and the updateDoc() of an update() writes
\* the instance's value of that field to the stored document of its docId.
C23_CodeNotOnInstance ==
  [][ \A c \in Clients :
        /\ (call'[c].op \in {"create", "update"} /\ (pc[c] # "idle" \/ pc'[c] # "idle")) =>
             inst'[c].code = inst[c].code
        /\ (pc[c] = "txCommit" /\ pc'[c] = "afterCreate" /\ Numbering(loc[c].read[2])) =>
             /\ loc[c].read[2].field = "code"
             /\ docs'[loc[c].docRef].code = TxNewCode(loc[c].read[2])
             /\ \A k \in Fields \ {"code"} : docs'[loc[c].docRef][k] = inst[c][k]
        /\ (pc[c] = "updateDoc" /\ pc'[c] = "afterUpdate") =>
             /\ loc[c].docRef = inst[c].docId
             /\ docs'[loc[c].docRef].code = inst[c].code ]_vars

\* an instance whose code was '7' created a document that was stored with an
\* allocated code, and its update() called next has written '7' over that code
C23_Witness ==
  \E c \in Clients :
    /\ lastOp = [by |-> c, op |-> "update", arg |-> NoId] /\ res[c].state = "resolved"
    /\ prev[c].by = c /\ prev[c].op = "create"
    /\ inst[c].code = <<"7">>
    /\ docs[inst[c].docId].code = <<"7">>
    /\ \E k \in NumberedCreated :
         /\ created[k].by = c /\ created[k].docId = inst[c].docId
         /\ created[k].code \notin {EmptyStr, <<"7">>}

\* the autonumber document started enabled, with length >= 1 and
\* 0 <= current < 10^length
InRange0 ==
  /\ Enabled0
  /\ autonum0.length >= 1
  /\ 0 <= autonum0.current /\ autonum0.current < Pow10(autonum0.length)

IsDigit(ch) == \E n \in DOMAIN DigitChars : DigitChars[n] = ch

\* C24: when the autonumber document starts enabled with length >= 1 and
\* 0 <= current < 10^length and only create() changes it, then in every state
\* current <= 10^length - 1 and every assigned code has exactly length digits
\* (it is the number zero-padded to length); and once current = 10^length - 1,
\* no step changes the autonumber document or writes a document, and every
\* create() whose transaction has not committed settles rejected.
C24_StaysInRange ==
  [][ InRange0 =>
        /\ autonum'.length = autonum0.length /\ autonum'.condition
        /\ autonum'.current <= Pow10(autonum0.length) - 1
        /\ \A k \in DOMAIN created' :
             /\ created'[k].numbered
             /\ Len(created'[k].code) = autonum0.length
             /\ \A n \in DOMAIN created'[k].code : IsDigit(created'[k].code[n])
             /\ created'[k].code = ZeroPad(autonum0.current + k, autonum0.length)
        /\ AtLastCode(autonum) =>
             /\ autonum' = autonum
             /\ docs' = docs
             /\ \A c \in Clients :
                  (pc[c] \in {"beforeCreate", "txGet", "txCommit"} /\ pc'[c] = "idle") =>
                    res'[c].state = "rejected" ]_vars

\* from current 7 with length 1, two creates were given the codes 8 and 9 and
\* a later one has failed for exhausted numbering: current is 9
C24_Witness ==
  /\ InRange0
  /\ autonum0.current = 7 /\ autonum.current = 9 /\ autonum.length = 1
  /\ Len(created) = 2 /\ created[2].code = <<"9">>
  /\ Idle(Clients)
  /\ \E c \in Clients : call[c].op = "create" /\ res[c] = ExhaustedError

\* C25: a create(docId) whose explicit id names a stored document is not
\* refused for that: its transaction ends only by a commit, by exhausted
\* numbering or by a store failure.  Its commit adds no document and replaces
\* the stored one as a whole: the document then has exactly the instance's
\* fields with the instance's values (its createAt is the new stamp, not the
\* stored one), but for the numbered field, and with numbering enabled current
\* is incremented and the document carries the new code.
C25_CreateOverwrites ==
  [][ \A c \in Clients :
        ( /\ call[c].op = "create" /\ call[c].arg # NoId
          /\ pc[c] \in {"txGet", "txCommit"}
          /\ loc[c].docRef \in DOMAIN docs ) =>
          /\ loc[c].docRef = call[c].arg
          /\ pc'[c] = "idle" => res'[c] \in {ExhaustedError, StoreError}
          /\ (pc[c] = "txGet" /\ pc'[c] = "idle" /\ res'[c] = ExhaustedError) =>
               TxExhausted(autonum)
          /\ pc'[c] = "afterCreate" =>
               /\ DOMAIN docs' = DOMAIN docs
               /\ DOMAIN docs'[loc[c].docRef] = DOMAIN inst[c]
               /\ \A k \in DOMAIN inst[c] \ {"code"} : docs'[loc[c].docRef][k] = inst[c][k]
               /\ docs'[loc[c].docRef].createAt # docs[loc[c].docRef].createAt
               /\ IF Numbering(loc[c].read[2])
                  THEN /\ autonum'.current = autonum.current + 1
                       /\ docs'[loc[c].docRef].code =
                            NewCode(autonum.current + 1, autonum.length)
                       /\ Len(created') = Len(created) + 1
                  ELSE /\ autonum' = autonum
                       /\ docs'[loc[c].docRef].code = inst[c].code ]_vars

\* with numbering enabled, create('x') succeeded twice: one document is
\* stored, two codes were allocated, and the document carries the second
C25_Witness ==
  /\ Enabled0
  /\ Idle(Clients)
  /\ DOMAIN docs = {"x"}
  /\ Len(created) = 2 /\ NumberedCreated = {1, 2}
  /\ created[1].docId = "x" /\ created[2].docId = "x"
  /\ created[1].code # created[2].code
  /\ docs["x"].code = created[2].code
  /\ autonum.current = autonum0.current + 2
  /\ \A c \in Clients : res[c] = Resolved("x")

====
